---- MODULE Spec2Model ----
(***************************************************************************)
(* Model of the worker pool (package workerpool) and of the part of the    *)
(* logger facade (package logger) that the pool uses.                      *)
(*                                                                         *)
(* One goroutine calls Register some number of times and then Start; each  *)
(* registered worker gets its own goroutine ("unit"); further goroutines   *)
(* ("closers") call Close.  Every statement that another goroutine can     *)
(* observe is one action.                                                  *)
(*                                                                         *)
(* Three specifications share the variables: Spec and FairSpec run the     *)
(* pool on an initialised logger; LoggerSpec runs Init, GetInstance and    *)
(* NewWorkerPool from an uninitialised process; HandleSpec runs With,      *)
(* WithGroup and WithContext on the handles of an initialised logger.      *)
(*                                                                         *)
(* The loop variable `worker` of Start is taken per iteration (Go 1.22     *)
(* semantics): unit u calls Process on workers[u].                         *)
(***************************************************************************)
EXTENDS Integers, Sequences, FiniteSets, Bags, TLC

\* ---- bounds of the model ------------------------------------------------
MaxWorkerIds == 2   \* distinct worker instances the caller owns
MaxRegister  == 2   \* Register calls made before Start
MaxClosers   == 2   \* goroutines that may call Close
MaxInitCalls == 2   \* goroutines that may call logger.Init
MaxGetters   == 1   \* goroutines that may call GetInstance or NewWorkerPool
MaxDerivers  == 2   \* goroutines that may call With, WithGroup or WithContext

\* ---- values --------------------------------------------------------------
NilWorker == 0                       \* the nil IWorker
WorkerIds == 1..MaxWorkerIds
Closers   == 1..MaxClosers
Units     == 1..MaxRegister          \* unit u runs workers[u]
InitCallers == 1..MaxInitCalls
Getters     == 1..MaxGetters
Derivers    == 1..MaxDerivers

NilChan  == "nil"                    \* zero value of a chan field
MadeChan == "made"                   \* make(chan struct{}): unbuffered channel

Outcomes == {"nil", "err", "panic"}  \* how one Process call terminates

VARIABLES
    workers,    \* wp.workers: the registration list
    regCalls,   \* history: arguments of the Register calls made so far
    done,       \* wp.done
    cancelled,  \* wp.ctx has been cancelled
    wg,         \* counter of wp.wg
    pcStart,    \* position of the goroutine running Start
    idx,        \* index of the range loop of Start
    pcUnit,     \* position of each unit goroutine
    outcome,    \* how the unit's Process call terminated ("none": not yet)
    pcClose,    \* position of each goroutine running Close
    sent,       \* number of values handed over on wp.done
    log,        \* bag of the records the pool emitted
    crashed,    \* the process died of an unrecovered panic
    captured,   \* the worker each unit's closure holds (NilWorker: no unit yet)
    panicValue, \* value of the unrecovered panic ("none": no such panic)
    \* package logger: the singleton
    instance,   \* var instance *Logger
    once,       \* var once sync.Once: "new", "running" or "done"
    pcInit,     \* position of each goroutine calling Init
    onceConf,   \* conf of the Init call whose function once.Do is running
    initRet,    \* what each Init call returned
    firstConf,  \* history: conf of the first Init call (NoConf: no call yet)
    lastConf,   \* history: conf of the latest Init call
    builds,     \* history: number of times a Logger was constructed by Init
    getRes,     \* what each GetInstance / NewWorkerPool call produced
    \* package logger: handles
    handles,    \* the *Logger values allocated so far; a handle is its index
    mutex,      \* var mutex sync.Mutex: 0 or the goroutine holding it
    pcDerive,   \* position of each goroutine calling With/WithGroup/WithContext
    derCall,    \* the call each such goroutine makes
    derRet      \* the handle each such call returned (0: none)

\* package workerpool
pvars == <<workers, regCalls, done, cancelled, wg, pcStart, idx, pcUnit,
           outcome, pcClose, sent, log, crashed, captured, panicValue>>

\* the singleton of package logger
lvars == <<instance, once, pcInit, onceConf, initRet, firstConf, lastConf,
           builds, getRes>>

\* the handles of package logger
hvars == <<handles, mutex, pcDerive, derCall, derRet>>

vars == <<pvars, lvars, hvars>>

\* ---- logger --------------------------------------------------------------
\* A record of the sink: level, message, and the goroutine that emitted it.
Record(level, msg, who) == [level |-> level, msg |-> msg, who |-> who]

\* slog.Logger.Error / Info as used by Logger.Error, Logger.Info, Logger.Panic
Emit(rec) == log (+) SetToBag({rec})

Emitted(rec) == BagIn(rec, log)

\* ---- NewWorkerPool -------------------------------------------------------
\* The composite literal sets ctx, cancel, wg, logger and workers; it has no
\* entry for done, which therefore keeps the zero value of a channel.
NewWorkerPool_done == NilChan

\* The pool as NewWorkerPool's composite literal builds it.
PoolNew ==
    /\ workers = <<>>
    /\ regCalls = <<>>
    /\ done = NewWorkerPool_done
    /\ cancelled = FALSE
    /\ wg = 0
    /\ pcStart = "idle"
    /\ idx = 1
    /\ pcUnit = [u \in Units |-> "none"]
    /\ outcome = [u \in Units |-> "none"]
    /\ pcClose = [c \in Closers |-> "idle"]
    /\ sent = 0
    /\ log = EmptyBag
    /\ crashed = FALSE
    /\ captured = [u \in Units |-> NilWorker]
    /\ panicValue = "none"

\* ---- logger: configuration and singleton -----------------------------------
NoInstance == [nil |-> TRUE]         \* var instance *Logger before Init
NilConf    == [nilconf |-> TRUE]     \* Init(nil)
NoConf     == [noconf |-> TRUE]      \* no Init call
NoResult   == [kind |-> "none"]      \* the call has not returned or panicked

Levels      == {"debug", "info"}     \* Config.Level
Formats     == {"json", "text", "xml"}   \* Config.Format, one unrecognised
Outputs     == {"unset", "file"}     \* Config.Output: nil or an *os.File
TimeFormats == {"", "rfc3339"}       \* Config.TimeFormat: empty or custom

\* The *Config values an Init call may pass (AddSource goes with debug).
Configs ==
    {c \in [level : Levels, format : Formats, addSource : BOOLEAN,
            output : Outputs, timeFormat : TimeFormats] :
        c.addSource = (c.level = "debug")}

ConfArgs == Configs \cup {NilConf}

\* Init, lines 35-49: the config that takes effect.
EffectiveConfig(conf) ==
    LET c == IF conf = NilConf
             THEN [level |-> "info", format |-> "text", addSource |-> FALSE,
                   output |-> "stdout", timeFormat |-> ""]
             ELSE conf
    IN  IF c.output = "unset" THEN [c EXCEPT !.output = "stdout"] ELSE c

\* Init, lines 51-78: the Logger built from the config in effect.  ReplaceAttr
\* is installed exactly when TimeFormat is not empty; any Format other than
\* "json" gets the text handler.
BuildLogger(conf) ==
    LET c == EffectiveConfig(conf)
    IN  [handler    |-> IF c.format = "json" THEN "json" ELSE "text",
         level      |-> c.level,
         addSource  |-> c.addSource,
         output     |-> c.output,
         timeAttr   |-> c.timeFormat]

\* No Init call, no GetInstance call and no NewWorkerPool call was made.
LoggerNew ==
    /\ instance = NoInstance
    /\ once = "new"
    /\ pcInit = [t \in InitCallers |-> "idle"]
    /\ onceConf = NoConf
    /\ initRet = [t \in InitCallers |-> NoResult]
    /\ firstConf = NoConf
    /\ lastConf = NoConf
    /\ builds = 0
    /\ getRes = [g \in Getters |-> NoResult]

\* GetInstance without its nil check: it returns whatever `instance` holds.
GetInstanceResult_nocheck(inst) == [kind |-> "logger", value |-> inst]

\* What GetInstance returns for the value it read from `instance`.
GetInstanceResult(inst) ==
    IF inst = NoInstance
    THEN [kind |-> "panic", value |-> "logger not initialized"]
    ELSE [kind |-> "logger", value |-> inst]

\* What NewWorkerPool produces: the panic of GetInstance passes through it,
\* otherwise a pool whose logger is the singleton under the "worker pool" group.
NewWorkerPoolResult(inst) ==
    IF GetInstanceResult(inst).kind = "panic"
    THEN GetInstanceResult(inst)
    ELSE [kind |-> "pool", value |-> inst]

\* The process called Init(nil) and then NewWorkerPool(), both returned.
LoggerReady ==
    /\ instance = BuildLogger(NilConf)
    /\ once = "done"
    /\ pcInit = [t \in InitCallers |-> IF t = 1 THEN "returned" ELSE "idle"]
    /\ onceConf = NoConf
    /\ initRet = [t \in InitCallers |->
                    IF t = 1 THEN BuildLogger(NilConf) ELSE NoResult]
    /\ firstConf = NilConf
    /\ lastConf = NilConf
    /\ builds = 1
    /\ getRes = [g \in Getters |->
                    IF g = 1 THEN NewWorkerPoolResult(BuildLogger(NilConf))
                    ELSE NoResult]

\* ---- logger: handles --------------------------------------------------------
\* A *Logger: the attributes its slog.Logger attaches to every record, each
\* with the groups it is nested under, and the groups opened so far.
Handle(attrs, groups) == [attrs |-> attrs, groups |-> groups]

\* The singleton, and the pool's logger: instance.WithGroup("worker pool").
RootHandle == Handle({}, <<>>)

PoolHandle == Handle({}, <<"worker pool">>)

\* No handle exists before Init.
HandlesNew ==
    /\ handles = <<>>
    /\ mutex = 0
    /\ pcDerive = [d \in Derivers |-> "idle"]
    /\ derCall = [d \in Derivers |-> NoResult]
    /\ derRet = [d \in Derivers |-> 0]

\* The handles after Init and NewWorkerPool.
HandlesReady ==
    /\ handles = <<RootHandle, PoolHandle>>
    /\ mutex = 0
    /\ pcDerive = [d \in Derivers |-> "idle"]
    /\ derCall = [d \in Derivers |-> NoResult]
    /\ derRet = [d \in Derivers |-> 0]

\* The pool right after logger.Init(nil) and NewWorkerPool().
Init == PoolNew /\ LoggerReady /\ HandlesReady

\* ---- Register ------------------------------------------------------------
\* Register without its nil check.
RegisterList_nocheck(list, w) == Append(list, w)

\* Register rejecting a worker that is already in the list.
RegisterList_dedup(list, w) ==
    IF w = NilWorker \/ (\E i \in 1..Len(list) : list[i] = w)
    THEN list ELSE Append(list, w)

\* The list Register leaves behind.
RegisterList(list, w) == IF w = NilWorker THEN list ELSE Append(list, w)

\* Register is called by the goroutine that later calls Start, before it does.
Register(w) ==
    /\ ~crashed
    /\ pcStart = "idle"
    /\ Len(regCalls) < MaxRegister
    /\ regCalls' = Append(regCalls, w)
    /\ workers' = RegisterList(workers, w)
    /\ UNCHANGED <<done, cancelled, wg, pcStart, idx, pcUnit, outcome,
                   pcClose, sent, log, crashed>>
    /\ UNCHANGED <<captured, panicValue, lvars, hvars>>

\* ---- Start ---------------------------------------------------------------
\* Where Start goes after the loop header has been evaluated with index i.
LoopHead(i) == IF i <= Len(workers) THEN "add" ELSE "wait"

\* Start is entered: the range loop is evaluated for the first time.
StartCall ==
    /\ ~crashed
    /\ pcStart = "idle"
    /\ idx' = 1
    /\ pcStart' = LoopHead(1)
    /\ UNCHANGED <<workers, regCalls, done, cancelled, wg, pcUnit, outcome,
                   pcClose, sent, log, crashed>>
    /\ UNCHANGED <<captured, panicValue, lvars, hvars>>

\* wp.wg.Add(1)
StartAdd ==
    /\ ~crashed
    /\ pcStart = "add"
    /\ wg' = wg + 1
    /\ pcStart' = "go"
    /\ UNCHANGED <<workers, regCalls, done, cancelled, idx, pcUnit, outcome,
                   pcClose, sent, log, crashed>>
    /\ UNCHANGED <<captured, panicValue, lvars, hvars>>

\* The loop variable every unit sees if one variable is shared by all
\* iterations and the loop has finished before the units read it.
LoopVar_shared(i) == workers[Len(workers)]

\* The value of the loop variable `worker` in iteration i, which the closure
\* of that iteration captures.
LoopVar(i) == workers[i]

\* go func() {...}(): the unit of workers[idx] becomes runnable; next iteration.
StartGo ==
    /\ ~crashed
    /\ pcStart = "go"
    /\ pcUnit' = [pcUnit EXCEPT ![idx] = "ready"]
    /\ idx' = idx + 1
    /\ pcStart' = LoopHead(idx + 1)
    /\ UNCHANGED <<workers, regCalls, done, cancelled, wg, outcome,
                   pcClose, sent, log, crashed>>
    /\ captured' = [captured EXCEPT ![idx] = LoopVar(idx)]
    /\ UNCHANGED <<panicValue, lvars, hvars>>

\* A barrier that lets Start through while one unit is still running.
WaitReturns_early == wg <= 1

\* wp.wg.Wait() returns when the counter is zero.
WaitReturns == wg = 0

StartWait ==
    /\ ~crashed
    /\ pcStart = "wait"
    /\ WaitReturns
    /\ pcStart' = "send"
    /\ UNCHANGED <<workers, regCalls, done, cancelled, wg, idx, pcUnit,
                   outcome, pcClose, sent, log, crashed>>
    /\ UNCHANGED <<captured, panicValue, lvars, hvars>>

\* The closers blocked in a receive on a made channel.
Receivers == {c \in Closers : pcClose[c] = "recvwait"}

\* What Close does once its receive has completed: logs "worker pool closed"
\* and returns.
CloseFinished(c) ==
    /\ pcClose' = [pcClose EXCEPT ![c] = "returned"]
    /\ log' = Emit(Record("info", "worker pool closed", <<"close", c>>))

\* wp.done <- struct{}{}.  A send on a nil channel parks the goroutine for
\* ever; a send on an unbuffered channel completes with a waiting receiver
\* and otherwise waits for one.  Start returns right after the send.
StartSend ==
    /\ ~crashed
    /\ pcStart = "send"
    /\ IF done = NilChan
       THEN /\ pcStart' = "parked"
            /\ UNCHANGED <<pcClose, sent, log>>
       ELSE IF Receivers # {}
       THEN /\ \E c \in Receivers : CloseFinished(c)
            /\ sent' = sent + 1
            /\ pcStart' = "returned"
       ELSE /\ pcStart' = "sending"
            /\ UNCHANGED <<pcClose, sent, log>>
    /\ UNCHANGED <<workers, regCalls, done, cancelled, wg, idx, pcUnit,
                   outcome, crashed>>
    /\ UNCHANGED <<captured, panicValue, lvars, hvars>>

\* ---- the unit goroutine of Start ------------------------------------------
\* worker.Process() is called.
UnitCall(u) ==
    /\ ~crashed
    /\ pcUnit[u] = "ready"
    /\ pcUnit' = [pcUnit EXCEPT ![u] = "processing"]
    /\ UNCHANGED <<workers, regCalls, done, cancelled, wg, pcStart, idx,
                   outcome, pcClose, sent, log, crashed>>
    /\ UNCHANGED <<captured, panicValue, lvars, hvars>>

\* Where the unit is once Process has terminated with outcome o: a nil return
\* falls off the end of the function and runs the deferred function, an error
\* return enters the if body, a panic starts unwinding into the deferred
\* function.
AfterProcess(o) ==
    CASE o = "nil"   -> "defer"
      [] o = "err"   -> "err"
      [] o = "panic" -> "panicking"

\* worker.Process() terminates (the worker is opaque: any outcome).
ProcessEnd(u, o) ==
    /\ ~crashed
    /\ pcUnit[u] = "processing"
    /\ outcome' = [outcome EXCEPT ![u] = o]
    /\ pcUnit' = [pcUnit EXCEPT ![u] = AfterProcess(o)]
    /\ UNCHANGED <<workers, regCalls, done, cancelled, wg, pcStart, idx,
                   pcClose, sent, log, crashed>>
    /\ UNCHANGED <<captured, panicValue, lvars, hvars>>

\* The error branch logging through Logger.Panic instead of Logger.Error.
UnitError_panics(u) ==
    /\ ~crashed
    /\ pcUnit[u] = "err"
    /\ log' = Emit(Record("error", "worker process err: %v", <<"unit", u>>))
    /\ crashed' = TRUE
    /\ pcUnit' = [pcUnit EXCEPT ![u] = "dead"]
    /\ UNCHANGED <<workers, regCalls, done, cancelled, wg, pcStart, idx,
                   outcome, pcClose, sent>>
    /\ UNCHANGED <<captured, panicValue, lvars, hvars>>

\* wp.logger.Error("worker process err: %v", err); return
UnitError(u) ==
    /\ ~crashed
    /\ pcUnit[u] = "err"
    /\ log' = Emit(Record("error", "worker process err: %v", <<"unit", u>>))
    /\ pcUnit' = [pcUnit EXCEPT ![u] = "defer"]
    /\ UNCHANGED <<workers, regCalls, done, cancelled, wg, pcStart, idx,
                   outcome, pcClose, sent, crashed>>
    /\ UNCHANGED <<captured, panicValue, lvars, hvars>>

\* The deferred function after a normal return: recover() yields nil, the if
\* body is skipped, wp.wg.Done().
UnitDone(u) ==
    /\ ~crashed
    /\ pcUnit[u] = "defer"
    /\ wg' = wg - 1
    /\ pcUnit' = [pcUnit EXCEPT ![u] = "done"]
    /\ UNCHANGED <<workers, regCalls, done, cancelled, pcStart, idx,
                   outcome, pcClose, sent, log, crashed>>
    /\ UNCHANGED <<captured, panicValue, lvars, hvars>>

\* The deferred function while panicking: recover() yields the panic value and
\* stops the unwinding; the if body is entered.
UnitRecover(u) ==
    /\ ~crashed
    /\ pcUnit[u] = "panicking"
    /\ pcUnit' = [pcUnit EXCEPT ![u] = "recovered"]
    /\ UNCHANGED <<workers, regCalls, done, cancelled, wg, pcStart, idx,
                   outcome, pcClose, sent, log, crashed>>
    /\ UNCHANGED <<captured, panicValue, lvars, hvars>>

\* wp.logger.Panic("panic: %v", err), first statement: l.slog.Error(msg, ...)
UnitLogPanic(u) ==
    /\ ~crashed
    /\ pcUnit[u] = "recovered"
    /\ log' = Emit(Record("error", "panic: %v", <<"unit", u>>))
    /\ pcUnit' = [pcUnit EXCEPT ![u] = "raise"]
    /\ UNCHANGED <<workers, regCalls, done, cancelled, wg, pcStart, idx,
                   outcome, pcClose, sent, crashed>>
    /\ UNCHANGED <<captured, panicValue, lvars, hvars>>

\* A Logger.Panic that returns to its caller after logging: the deferred
\* function goes on to wp.wg.Done().
UnitRaise_returns(u) ==
    /\ ~crashed
    /\ pcUnit[u] = "raise"
    /\ pcUnit' = [pcUnit EXCEPT ![u] = "defer"]
    /\ UNCHANGED <<workers, regCalls, done, cancelled, wg, pcStart, idx,
                   outcome, pcClose, sent, log, crashed>>
    /\ UNCHANGED <<captured, panicValue, lvars, hvars>>

\* wp.logger.Panic, second statement: panic(msg).  It is raised inside the
\* deferred function, the goroutine has no other deferred call, so nothing
\* recovers it: the runtime ends the process.  wp.wg.Done() is not reached.
UnitRaise(u) ==
    /\ ~crashed
    /\ pcUnit[u] = "raise"
    /\ crashed' = TRUE
    /\ pcUnit' = [pcUnit EXCEPT ![u] = "dead"]
    /\ UNCHANGED <<workers, regCalls, done, cancelled, wg, pcStart, idx,
                   outcome, pcClose, sent, log>>
    /\ panicValue' = "panic: %v"
    /\ UNCHANGED <<captured, lvars, hvars>>

\* ---- Close ---------------------------------------------------------------
\* wp.logger.Info("worker pool closing")
CloseCall(c) ==
    /\ ~crashed
    /\ pcClose[c] = "idle"
    /\ log' = Emit(Record("info", "worker pool closing", <<"close", c>>))
    /\ pcClose' = [pcClose EXCEPT ![c] = "cancel"]
    /\ UNCHANGED <<workers, regCalls, done, cancelled, wg, pcStart, idx,
                   pcUnit, outcome, sent, crashed>>
    /\ UNCHANGED <<captured, panicValue, lvars, hvars>>

\* Close going on to its receive without cancelling the context.
CloseCancel_nocancel(c) ==
    /\ ~crashed
    /\ pcClose[c] = "cancel"
    /\ pcClose' = [pcClose EXCEPT ![c] = "recv"]
    /\ UNCHANGED <<workers, regCalls, done, cancelled, wg, pcStart, idx, pcUnit,
                   outcome, sent, log, crashed>>
    /\ UNCHANGED <<captured, panicValue, lvars, hvars>>

\* wp.cancel()
CloseCancel(c) ==
    /\ ~crashed
    /\ pcClose[c] = "cancel"
    /\ cancelled' = TRUE
    /\ pcClose' = [pcClose EXCEPT ![c] = "recv"]
    /\ UNCHANGED <<workers, regCalls, done, wg, pcStart, idx, pcUnit,
                   outcome, sent, log, crashed>>
    /\ UNCHANGED <<captured, panicValue, lvars, hvars>>

\* Close without the receive: it logs "worker pool closed" right after cancel.
CloseRecv_nowait(c) ==
    /\ ~crashed
    /\ pcClose[c] = "recv"
    /\ CloseFinished(c)
    /\ UNCHANGED <<workers, regCalls, done, cancelled, wg, pcStart, idx, pcUnit,
                   outcome, sent, crashed>>
    /\ UNCHANGED <<captured, panicValue, lvars, hvars>>

\* <-wp.done, then wp.logger.Info("worker pool closed") and return.  A receive
\* from a nil channel parks the goroutine for ever; a receive from an
\* unbuffered channel completes with a waiting sender and otherwise waits for
\* one.
CloseRecv(c) ==
    /\ ~crashed
    /\ pcClose[c] = "recv"
    /\ IF done = NilChan
       THEN /\ pcClose' = [pcClose EXCEPT ![c] = "parked"]
            /\ UNCHANGED <<pcStart, sent, log>>
       ELSE IF pcStart = "sending"
       THEN /\ CloseFinished(c)
            /\ sent' = sent + 1
            /\ pcStart' = "returned"
       ELSE /\ pcClose' = [pcClose EXCEPT ![c] = "recvwait"]
            /\ UNCHANGED <<pcStart, sent, log>>
    /\ UNCHANGED <<workers, regCalls, done, cancelled, wg, idx, pcUnit,
                   outcome, crashed>>
    /\ UNCHANGED <<captured, panicValue, lvars, hvars>>

\* ---- specification -------------------------------------------------------
Next ==
    \/ \E w \in WorkerIds \cup {NilWorker} : Register(w)
    \/ StartCall
    \/ StartAdd
    \/ StartGo
    \/ StartWait
    \/ StartSend
    \/ \E u \in Units : UnitCall(u)
    \/ \E u \in Units, o \in Outcomes : ProcessEnd(u, o)
    \/ \E u \in Units : UnitError(u)
    \/ \E u \in Units : UnitDone(u)
    \/ \E u \in Units : UnitRecover(u)
    \/ \E u \in Units : UnitLogPanic(u)
    \/ \E u \in Units : UnitRaise(u)
    \/ \E c \in Closers : CloseCall(c)
    \/ \E c \in Closers : CloseCancel(c)
    \/ \E c \in Closers : CloseRecv(c)

Spec == Init /\ [][Next]_vars

\* The Go scheduler runs every runnable goroutine: each step of Start, of a
\* unit and of a Close that has been called is eventually taken.  Whether the
\* caller registers, starts or closes at all is its own choice, and a Process
\* call terminates only if the worker makes it.
Fairness ==
    /\ WF_vars(StartAdd) /\ WF_vars(StartGo) /\ WF_vars(StartWait)
    /\ WF_vars(StartSend)
    /\ \A u \in Units :
        /\ WF_vars(UnitCall(u)) /\ WF_vars(UnitError(u))
        /\ WF_vars(UnitDone(u)) /\ WF_vars(UnitRecover(u))
        /\ WF_vars(UnitLogPanic(u)) /\ WF_vars(UnitRaise(u))
    /\ \A c \in Closers : WF_vars(CloseCancel(c)) /\ WF_vars(CloseRecv(c))

FairSpec == Spec /\ Fairness

\* ---- logger.Init, GetInstance, NewWorkerPool ---------------------------------
\* once.Do running the function of every call.
OnceAdmits_always(o) == TRUE

\* once.Do(f) runs f for the call that finds the Once unused.
OnceAdmits(o) == o = "new"

\* Init(conf) is called and reaches once.Do: the first call starts running the
\* function, a call arriving while it runs waits for it, a later call passes.
InitCall(t, conf) ==
    /\ pcInit[t] = "idle"
    /\ firstConf' = IF firstConf = NoConf THEN conf ELSE firstConf
    /\ lastConf' = conf
    /\ IF OnceAdmits(once)
       THEN /\ once' = "running"
            /\ onceConf' = conf
            /\ pcInit' = [pcInit EXCEPT ![t] = "build"]
       ELSE /\ pcInit' = [pcInit EXCEPT ![t] =
                            IF once = "running" THEN "blocked" ELSE "ret"]
            /\ UNCHANGED <<once, onceConf>>
    /\ UNCHANGED <<instance, initRet, builds, getRes>>
    /\ UNCHANGED <<pvars, hvars>>

\* The function of once.Do, lines 35-78: instance = &Logger{...}.
InitBuild(t) ==
    /\ pcInit[t] = "build"
    /\ instance' = BuildLogger(onceConf)
    /\ builds' = builds + 1
    /\ pcInit' = [pcInit EXCEPT ![t] = "built"]
    /\ UNCHANGED <<once, onceConf, initRet, firstConf, lastConf, getRes>>
    /\ UNCHANGED <<pvars, hvars>>

\* The function returns: once.Do marks the Once done and returns.
InitOnceDone(t) ==
    /\ pcInit[t] = "built"
    /\ once' = "done"
    /\ onceConf' = NoConf
    /\ pcInit' = [pcInit EXCEPT ![t] = "ret"]
    /\ UNCHANGED <<instance, initRet, firstConf, lastConf, builds, getRes>>
    /\ UNCHANGED <<pvars, hvars>>

\* once.Do returns in a call that waited for the running function.
InitUnblock(t) ==
    /\ pcInit[t] = "blocked"
    /\ once = "done"
    /\ pcInit' = [pcInit EXCEPT ![t] = "ret"]
    /\ UNCHANGED <<instance, once, onceConf, initRet, firstConf, lastConf,
                   builds, getRes>>
    /\ UNCHANGED <<pvars, hvars>>

\* return instance
InitReturn(t) ==
    /\ pcInit[t] = "ret"
    /\ initRet' = [initRet EXCEPT ![t] = instance]
    /\ pcInit' = [pcInit EXCEPT ![t] = "returned"]
    /\ UNCHANGED <<instance, once, onceConf, firstConf, lastConf, builds,
                   getRes>>
    /\ UNCHANGED <<pvars, hvars>>

\* GetInstance(): reads `instance` without synchronisation, so it sees the
\* value some Init call stored as soon as it is stored.
GetInstanceCall(g) ==
    /\ getRes[g] = NoResult
    /\ getRes' = [getRes EXCEPT ![g] = GetInstanceResult(instance)]
    /\ UNCHANGED <<instance, once, pcInit, onceConf, initRet, firstConf,
                   lastConf, builds>>
    /\ UNCHANGED <<pvars, hvars>>

\* NewWorkerPool(): logger.GetInstance().WithGroup("worker pool") inside the
\* composite literal.
NewWorkerPoolCall(g) ==
    /\ getRes[g] = NoResult
    /\ getRes' = [getRes EXCEPT ![g] = NewWorkerPoolResult(instance)]
    /\ UNCHANGED <<instance, once, pcInit, onceConf, initRet, firstConf,
                   lastConf, builds>>
    /\ UNCHANGED <<pvars, hvars>>

LoggerInit == PoolNew /\ LoggerNew /\ HandlesNew

LoggerNext ==
    \/ \E t \in InitCallers, conf \in ConfArgs : InitCall(t, conf)
    \/ \E t \in InitCallers : InitBuild(t)
    \/ \E t \in InitCallers : InitOnceDone(t)
    \/ \E t \in InitCallers : InitUnblock(t)
    \/ \E t \in InitCallers : InitReturn(t)
    \/ \E g \in Getters : GetInstanceCall(g)
    \/ \E g \in Getters : NewWorkerPoolCall(g)

LoggerSpec == LoggerInit /\ [][LoggerNext]_vars

\* ---- Logger.With, Logger.WithGroup, Logger.WithContext -------------------------
NilCtx == [nilctx |-> TRUE]          \* a nil context.Context

\* What ctx.Value(key) holds: nothing, a string or an int.
CtxValues == {"absent", "string", "int"}

Ctxs == [request_id : CtxValues, user_id : CtxValues]

\* The calls a goroutine may make on handle h.
DeriveCalls(h) ==
    {[op |-> "With", recv |-> h, arg |-> a] : a \in {{}, {"k"}}}
    \cup {[op |-> "WithGroup", recv |-> h, arg |-> g] : g \in {"", "g"}}
    \cup {[op |-> "WithContext", recv |-> h, arg |-> x] : x \in Ctxs \cup {NilCtx}}

\* WithContext taking every value that is present, whatever its type.
CtxAttrs_anytype(ctx) ==
    (IF ctx.request_id # "absent" THEN {"request_id"} ELSE {})
    \cup (IF ctx.user_id # "absent" THEN {"user_id"} ELSE {})

\* WithContext, lines 147-153: the keys whose type assertion succeeds.
CtxAttrs(ctx) ==
    (IF ctx.request_id = "string" THEN {"request_id"} ELSE {})
    \cup (IF ctx.user_id = "int" THEN {"user_id"} ELSE {})

\* slog.Logger.With: the keys are attached under the groups opened so far.
SlogWith(h, keys) == Handle(h.attrs \cup {<<h.groups, k>> : k \in keys}, h.groups)

\* slog.Logger.WithGroup: an empty name opens no group.
SlogWithGroup(h, name) ==
    IF name = "" THEN h ELSE Handle(h.attrs, Append(h.groups, name))

\* What the body of the call produces: a panic (ctx.Value on a nil context),
\* the receiver itself, or a newly allocated Logger.
DeriveResult(call) ==
    LET h == handles[call.recv] IN
    CASE call.op = "With" ->
            [kind |-> "new", handle |-> SlogWith(h, call.arg)]
      [] call.op = "WithGroup" ->
            [kind |-> "new", handle |-> SlogWithGroup(h, call.arg)]
      [] call.op = "WithContext" ->
            IF call.arg = NilCtx THEN [kind |-> "panic", handle |-> h]
            ELSE IF CtxAttrs(call.arg) = {} THEN [kind |-> "same", handle |-> h]
            ELSE [kind |-> "new", handle |-> SlogWith(h, CtxAttrs(call.arg))]

\* The method is called on an existing handle: mutex.Lock().
DeriveLock(d, call) ==
    /\ pcDerive[d] = "idle"
    /\ mutex = 0
    /\ mutex' = d
    /\ derCall' = [derCall EXCEPT ![d] =
                    [op |-> call.op, recv |-> call.recv, arg |-> call.arg,
                     before |-> Len(handles)]]
    /\ pcDerive' = [pcDerive EXCEPT ![d] = "locked"]
    /\ UNCHANGED <<handles, derRet>>
    /\ UNCHANGED <<pvars, lvars>>

\* The body runs and the call ends, by return or by panic; the deferred
\* mutex.Unlock() runs either way.
DeriveReturn(d) ==
    /\ pcDerive[d] = "locked"
    /\ LET res == DeriveResult(derCall[d]) IN
        /\ handles' = IF res.kind = "new" THEN Append(handles, res.handle)
                                          ELSE handles
        /\ derRet' = [derRet EXCEPT ![d] =
                        CASE res.kind = "new"   -> Len(handles) + 1
                          [] res.kind = "same"  -> derCall[d].recv
                          [] res.kind = "panic" -> 0]
        /\ pcDerive' = [pcDerive EXCEPT ![d] =
                        IF res.kind = "panic" THEN "panicked" ELSE "returned"]
    /\ mutex' = 0
    /\ UNCHANGED derCall
    /\ UNCHANGED <<pvars, lvars>>

HandleNext ==
    \/ \E d \in Derivers, h \in 1..Len(handles) :
            \E call \in DeriveCalls(h) : DeriveLock(d, call)
    \/ \E d \in Derivers : DeriveReturn(d)

HandleSpec == Init /\ [][HandleNext]_vars

\* ---- vocabulary of the properties ----------------------------------------
\* The units of the registered workers: Start launches exactly these.
Registered == 1..Len(workers)

StartInvoked == pcStart # "idle"

\* wp.wg.Wait() has returned in Start.
StartPastBarrier == pcStart \in {"send", "sending", "parked", "returned"}

StartReturned == pcStart = "returned"

ProcessTerminated(u) == outcome[u] # "none"

\* Start has been invoked and every registered worker's Process call is over.
AllProcessTerminated ==
    StartInvoked /\ \A u \in Registered : ProcessTerminated(u)

\* Start has been invoked and every registered worker's Process call has
\* returned, with nil or with an error.
AllProcessReturned ==
    AllProcessTerminated /\ \A u \in Registered : outcome[u] # "panic"

CloseCalled(c) == pcClose[c] # "idle"

CalledClosers == {c \in Closers : CloseCalled(c)}

\* Close is blocked in (or about to execute) its receive.
CloseWaiting(c) == pcClose[c] \in {"recv", "recvwait", "parked"}

ClosingRecord(c) == Record("info", "worker pool closing", <<"close", c>>)

ClosedRecord(c) == Record("info", "worker pool closed", <<"close", c>>)

IsWorker(w) == w # NilWorker

\* ---- C1 ------------------------------------------------------------------
\* C1: Start does not get past its barrier, does not return, and the
\* completion signal is not sent, while a Process call of a registered worker
\* has not terminated, whatever the outcomes of the calls.
C1_StartWaitsForAll ==
    (StartPastBarrier \/ sent > 0) =>
        \A u \in Registered : ProcessTerminated(u)

\* Start is past the barrier of two workers, one failed and one succeeded.
C1_Witness ==
    /\ StartPastBarrier
    /\ Len(workers) = 2
    /\ \E u, v \in Registered : outcome[u] = "err" /\ outcome[v] = "nil"

\* ---- C2 ------------------------------------------------------------------
\* C2: under fair scheduling, once Start has been invoked and every Process
\* call has terminated, Start eventually returns to its caller.  Stated for
\* the Process calls that return (nil or error), the zero-worker pool included.
C2_StartEventuallyReturns == AllProcessReturned ~> StartReturned

\* ---- C3 ------------------------------------------------------------------
\* C3: a worker whose Process panics does not crash the process: the panic is
\* contained in its unit.
C3_PanicContained ==
    (\E u \in Units : outcome[u] = "panic") => ~crashed

\* ---- C4 ------------------------------------------------------------------
\* A step of unit u on the path of an error return.
ErrorPathStep(u) == outcome'[u] = "err" /\ pcUnit'[u] # pcUnit[u]

\* C4: the steps a unit takes after its Process returned an error touch only
\* that unit: no other unit changes position, Start and the closers are not
\* disturbed, the context is not cancelled, the process does not die, and the
\* unit ends by reporting to the barrier; the context is cancelled by Close
\* alone.
C4_ErrorIsolated ==
    /\ [][\A u \in Units : ErrorPathStep(u) =>
            /\ \A v \in Units \ {u} :
                    pcUnit'[v] = pcUnit[v] /\ outcome'[v] = outcome[v]
            /\ pcUnit'[u] \in {"err", "defer", "done"}
            /\ pcStart' = pcStart /\ idx' = idx /\ pcClose' = pcClose
            /\ cancelled' = cancelled
            /\ crashed' = crashed]_vars
    /\ [](cancelled => \E c \in Closers : pcClose[c] \notin {"idle", "cancel"})

\* One unit returned an error and is over, its sibling ran to completion after
\* it and Start got past the barrier.
C4_Witness ==
    /\ Len(workers) = 2
    /\ outcome[1] = "err" /\ pcUnit[1] = "done"
    /\ outcome[2] = "nil" /\ pcUnit[2] = "done"
    /\ StartPastBarrier
    /\ ~cancelled

\* ---- C5 ------------------------------------------------------------------
\* C5: Close has not returned and has not logged "worker pool closed" unless
\* Start was invoked and every registered worker's Process call is over.
C5_ClosedAfterAllWorkers ==
    \A c \in Closers :
        (pcClose[c] = "returned" \/ Emitted(ClosedRecord(c))) =>
            AllProcessTerminated

\* Close waits in its receive while Start waits at the barrier for a unit that
\* is still in Process.
C5_Witness ==
    /\ pcStart = "wait"
    /\ \E c \in Closers : pcClose[c] = "parked"
    /\ \E u \in Registered : pcUnit[u] = "processing"

\* ---- C6 ------------------------------------------------------------------
\* C6: under fair scheduling, if Start has been invoked, one Close has been
\* called and every Process call has terminated, then Start and that Close
\* eventually return (unless a second Close is called).  Stated for the
\* Process calls that return (nil or error).
C6_StartAndCloseReturn ==
    \A c \in Closers :
        (AllProcessReturned /\ CalledClosers = {c})
            ~> \/ StartReturned /\ pcClose[c] = "returned"
               \/ CalledClosers # {c}

\* ---- C7 ------------------------------------------------------------------
\* C7: the registration list is the sequence of the non-nil arguments of the
\* Register calls, in call order; in particular Register(nil) changes nothing
\* and the length is the number of non-nil calls.
C7_RegisterCount == workers = SelectSeq(regCalls, IsWorker)

\* A nil was registered among calls that registered a worker.
C7_Witness ==
    /\ \E i \in 1..Len(regCalls) : regCalls[i] = NilWorker
    /\ Len(workers) >= 1

\* ---- C8 ------------------------------------------------------------------
\* C8 as stated: the registration list never holds the same worker twice.
C8_NoDuplicates ==
    \A i, j \in 1..Len(workers) : i # j => workers[i] # workers[j]

\* C8 as amended: every Register call with a non-nil worker appends it, also
\* when that worker is already in the list; nil never enters the list.
C8_DuplicatesAppended ==
    /\ [][\A w \in WorkerIds :
            regCalls' = Append(regCalls, w) => workers' = Append(workers, w)]_vars
    /\ [](\A i \in 1..Len(workers) : workers[i] # NilWorker)

\* The same worker was registered twice and is in the list twice.
C8_Witness ==
    \E i, j \in 1..Len(workers) : i # j /\ workers[i] = workers[j]

\* ---- C9 ------------------------------------------------------------------
\* C9: the completion signal fires exactly once: never more than once, never
\* before the barrier, and once the barrier is satisfied and a Close waits for
\* it the signal is delivered.
C9_SignalExactlyOnce ==
    /\ [](sent <= 1)
    /\ [](sent = 1 => StartPastBarrier)
    /\ (StartPastBarrier /\ \E c \in Closers : CloseWaiting(c)) ~> (sent = 1)

\* ---- C10 -----------------------------------------------------------------
\* C10: while Start has not been invoked no Close has returned or logged
\* "worker pool closed", and a Close that reached its receive has logged
\* "worker pool closing" and cancelled the context.
C10_CloseWithoutStartBlocks ==
    ~StartInvoked =>
        \A c \in Closers :
            /\ pcClose[c] # "returned"
            /\ ~Emitted(ClosedRecord(c))
            /\ CloseWaiting(c) => cancelled /\ Emitted(ClosingRecord(c))

\* Close is parked in its receive on a pool that was never started.
C10_Witness ==
    /\ ~StartInvoked
    /\ \E c \in Closers :
        pcClose[c] = "parked" /\ cancelled /\ Emitted(ClosingRecord(c))

\* ---- C13 -----------------------------------------------------------------
\* C13: cancellation is advisory.  A Close that waits (or is past waiting) has
\* cancelled the context; once cancelled the context stays cancelled; the step
\* that cancels changes no unit and not the join counter; and while a
\* registered worker's Process call has not terminated, Start is not past the
\* barrier, no Close has returned and the completion signal has not fired.
C13_CancelAdvisory ==
    /\ [](\A c \in Closers :
            (CloseWaiting(c) \/ pcClose[c] = "returned") => cancelled)
    /\ [][cancelled => cancelled']_vars
    /\ [][cancelled' # cancelled =>
            pcUnit' = pcUnit /\ outcome' = outcome /\ wg' = wg]_vars
    /\ []((\E u \in Registered : ~ProcessTerminated(u)) =>
            /\ ~StartPastBarrier
            /\ sent = 0
            /\ \A c \in Closers : pcClose[c] # "returned")

\* The context is cancelled, Close waits, and a unit is still inside Process
\* with Start held at the barrier.
C13_Witness ==
    /\ cancelled
    /\ pcStart = "wait"
    /\ \E c \in Closers : CloseWaiting(c)
    /\ \E u \in Registered : pcUnit[u] = "processing" /\ wg > 0

\* ---- C14 -----------------------------------------------------------------
ErrorRecord(u) == Record("error", "worker process err: %v", <<"unit", u>>)

PanicRecord(u) == Record("error", "panic: %v", <<"unit", u>>)

\* The unit's goroutine has ended.
UnitOver(u) == pcUnit[u] \in {"done", "dead"}

\* C14: a worker's failure has no effect but log records: the process lives,
\* and a unit that is over has emitted exactly one error-level record if its
\* Process returned an error, exactly one if it panicked, and none if it
\* returned nil.
C14_FailuresOnlyLogged ==
    \A u \in Units :
        ProcessTerminated(u) =>
            /\ ~crashed
            /\ UnitOver(u) =>
                /\ CopiesIn(ErrorRecord(u), log) =
                        (IF outcome[u] = "err" THEN 1 ELSE 0)
                /\ CopiesIn(PanicRecord(u), log) =
                        (IF outcome[u] = "panic" THEN 1 ELSE 0)

\* ---- C15 -----------------------------------------------------------------
\* The unit has called Process.
ProcessCalled(u) == pcUnit[u] \notin {"none", "ready"}

\* The units that called Process on worker w.
UnitsOn(w) == {u \in Units : ProcessCalled(u) /\ captured[u] = w}

\* Start's loop is over.
LaunchOver == pcStart \notin {"idle", "add", "go"}

\* C15 as stated: no worker is processed by two units.
C15_OncePerWorker == \A w \in WorkerIds : Cardinality(UnitsOn(w)) <= 1

\* C15 as amended: units and entries of the registration list correspond one
\* to one.  A unit exists only for an entry and holds the worker of its entry,
\* every entry has its unit once the loop is over, and no unit enters Process
\* a second time.
C15_OncePerEntry ==
    /\ [](\A u \in Units :
            pcUnit[u] # "none" => u \in Registered /\ captured[u] = workers[u])
    /\ [](LaunchOver => \A u \in Registered : pcUnit[u] # "none")
    /\ [][\A u \in Units :
            pcUnit'[u] = "processing" => pcUnit[u] \in {"ready", "processing"}]_vars

\* The same worker is registered twice and two units have called its Process.
C15_Witness ==
    /\ Len(workers) = 2
    /\ workers[1] = workers[2]
    /\ Cardinality(UnitsOn(workers[1])) = 2

\* ---- C16 -----------------------------------------------------------------
\* The units wp.wg.Add(1) has been called for.
Added(u) == pcUnit[u] # "none" \/ (pcStart = "go" /\ idx = u)

\* C16: the join counter is never negative and equals the number of units
\* added that have not terminated, whatever the path of their termination.
C16_JoinCounter ==
    /\ wg >= 0
    /\ wg = Cardinality({u \in Units : Added(u) /\ ~UnitOver(u)})

\* ---- C17 -----------------------------------------------------------------
\* C17: Logger.Panic has emitted its error-level record when it raises; what
\* it raises carries msg; it never returns to its caller, so the deferred
\* function that called it never reaches wp.wg.Done(); raised from inside the
\* recovery handler, the signal leaves the handler and ends the process.
C17_PanicLogsThenRaises ==
    /\ [](\A u \in Units :
            pcUnit[u] \in {"raise", "dead"} => CopiesIn(PanicRecord(u), log) = 1)
    /\ [](\A u \in Units :
            pcUnit[u] = "dead" => crashed /\ panicValue = PanicRecord(u).msg)
    /\ [](\A u \in Units :
            outcome[u] = "panic" => pcUnit[u] \notin {"defer", "done"})
    /\ [][\A u \in Units :
            (pcUnit[u] = "raise" /\ pcUnit'[u] # "raise") =>
                pcUnit'[u] = "dead" /\ crashed']_vars

\* Logger.Panic was called in the recovery handler of a unit and has raised.
C17_Witness ==
    \E u \in Units :
        /\ outcome[u] = "panic" /\ pcUnit[u] = "dead"
        /\ crashed /\ panicValue = "panic: %v"
        /\ wg > 0

\* ---- C18 -----------------------------------------------------------------
ReturnedClosers == {c \in Closers : pcClose[c] = "returned"}

\* C18: every Close that returned consumed a completion signal of its own, and
\* one Start sends at most one: at most one Close ever returns.
C18_AtMostOneCloseReturns ==
    /\ Cardinality(ReturnedClosers) <= sent
    /\ Cardinality(ReturnedClosers) <= 1

\* Close was called twice on a pool whose Start passed the barrier; both wait.
C18_Witness ==
    /\ StartPastBarrier
    /\ Cardinality(CalledClosers) >= 2
    /\ \A c \in CalledClosers : pcClose[c] = "parked"

\* ---- C11 -----------------------------------------------------------------
InitReturned(t) == pcInit[t] = "returned"

\* The Logger the first Init call's configuration asks for, field by field.
FirstConfLogger(inst) ==
    IF firstConf = NilConf
    THEN /\ inst.handler = "text" /\ inst.level = "info"
         /\ inst.output = "stdout"
         /\ inst.addSource = FALSE /\ inst.timeAttr = ""
    ELSE /\ inst.handler = (IF firstConf.format = "json" THEN "json" ELSE "text")
         /\ inst.level = firstConf.level
         /\ inst.output = (IF firstConf.output = "unset" THEN "stdout"
                                                         ELSE firstConf.output)
         /\ inst.addSource = firstConf.addSource
         /\ inst.timeAttr = firstConf.timeFormat

\* C11: in every interleaving of Init calls a Logger is constructed at most
\* once, the singleton is the one the first call's configuration asks for (the
\* defaults for nil), it never changes once set, and every Init call that
\* returns returns it.
C11_InitOnce ==
    /\ [](builds <= 1)
    /\ [](instance # NoInstance => builds = 1 /\ FirstConfLogger(instance))
    /\ [](\A t \in InitCallers :
            InitReturned(t) => instance # NoInstance /\ initRet[t] = instance)
    /\ [][instance # NoInstance => instance' = instance]_vars

\* Two Init calls with different configurations have both returned.
C11_Witness ==
    /\ \E t1, t2 \in InitCallers :
        t1 # t2 /\ InitReturned(t1) /\ InitReturned(t2)
    /\ firstConf # NilConf /\ lastConf # NilConf
    /\ firstConf.format = "json" /\ lastConf.format = "text"
    /\ instance.handler = "json"

\* ---- C12 -----------------------------------------------------------------
\* Getter g makes its GetInstance or NewWorkerPool call in this step.
GetterStep(g) == getRes[g] = NoResult /\ getRes'[g] # NoResult

\* No Init call has stored the singleton yet.
NothingStored == \A t \in InitCallers : pcInit[t] \in {"idle", "build", "blocked"}

\* C12 as stated: a GetInstance or NewWorkerPool call made when no Init call
\* has completed panics, and one made after an Init call completed gets the
\* singleton.
C12_PanicsBeforeInitCompletes ==
    [][\A g \in Getters : GetterStep(g) =>
        IF \E t \in InitCallers : InitReturned(t)
        THEN getRes'[g].kind # "panic" /\ getRes'[g].value = instance
        ELSE getRes'[g].kind = "panic"]_vars

\* C12 as amended: a GetInstance or NewWorkerPool call made when no Init call
\* has stored the singleton yet panics and yields no logger and no pool; one
\* made once an Init call has stored it (returned or not) gets the singleton
\* that Init built.
C12_PanicsUntilStored ==
    [][\A g \in Getters : GetterStep(g) =>
        IF NothingStored
        THEN getRes'[g] = [kind |-> "panic", value |-> "logger not initialized"]
        ELSE /\ getRes'[g].kind \in {"logger", "pool"}
             /\ getRes'[g].value = instance
             /\ instance # NoInstance /\ FirstConfLogger(instance)]_vars

\* A call panicked while an Init call was inside once.Do, before the store.
C12_Witness ==
    /\ \E g \in Getters : getRes[g].kind = "panic"
    /\ \E t \in InitCallers : pcInit[t] = "build"

\* ---- C19 -----------------------------------------------------------------
DeriveOver(d) == pcDerive[d] \in {"returned", "panicked"}

\* The keys the context of the call carries with the type WithContext expects.
KeysPresent(ctx) ==
    {k \in {"request_id", "user_id"} :
        \/ k = "request_id" /\ ctx.request_id = "string"
        \/ k = "user_id" /\ ctx.user_id = "int"}

\* The handle was allocated by the call of d.
NewHandle(d) == derRet[d] > derCall[d].before /\ derRet[d] <= Len(handles)

\* C19: WithContext returns the receiver itself when the context carries
\* neither a string request_id nor an int user_id, and otherwise a new handle
\* that adds exactly the keys present to the receiver's attributes; With and
\* WithGroup return a new handle; no call changes a handle that exists; and
\* the mutex is held only inside a call and released when the call is over,
\* by return or by panic.
C19_DeriveHandles ==
    /\ [](\A d \in Derivers :
            (pcDerive[d] = "returned" /\ derCall[d].op = "WithContext") =>
                LET recv == derCall[d].recv
                    keys == KeysPresent(derCall[d].arg)
                IN  IF keys = {}
                    THEN derRet[d] = recv
                    ELSE /\ NewHandle(d)
                         /\ handles[derRet[d]].groups = handles[recv].groups
                         /\ handles[derRet[d]].attrs =
                                handles[recv].attrs \cup
                                    {<<handles[recv].groups, k>> : k \in keys})
    /\ [](\A d \in Derivers :
            (pcDerive[d] = "returned" /\ derCall[d].op \in {"With", "WithGroup"})
                => NewHandle(d))
    /\ [][/\ Len(handles') >= Len(handles)
          /\ \A i \in 1..Len(handles) : handles'[i] = handles[i]]_vars
    /\ [](mutex # 0 => pcDerive[mutex] = "locked")
    /\ [](\A d \in Derivers : DeriveOver(d) => mutex # d)

\* One WithContext call whose context holds a request_id of the wrong type
\* returned its receiver; another, with a string request_id only, returned a
\* new handle; the mutex is free again.
C19_Witness ==
    /\ mutex = 0
    /\ \E d1, d2 \in Derivers :
        /\ pcDerive[d1] = "returned" /\ derCall[d1].op = "WithContext"
        /\ derCall[d1].arg = [request_id |-> "int", user_id |-> "absent"]
        /\ derRet[d1] = derCall[d1].recv
        /\ pcDerive[d2] = "returned" /\ derCall[d2].op = "WithContext"
        /\ derCall[d2].arg = [request_id |-> "string", user_id |-> "absent"]
        /\ derRet[d2] # derCall[d2].recv

====
